---- MODULE Spec2Model ----
(***************************************************************************)
(* State-machine model of globsim's ERA-Interim interpolation code         *)
(* (src/era_interim.py): the chunked grid-to-station pass                  *)
(* ERAIinterpolate.ERA2station with its regridding call ERAinterp2D, and   *)
(* the vertical interpolation ERAIinterpolate.levels2elevation.            *)
(*                                                                         *)
(* and of the scaling class ERAIscale with its kernels.                     *)
(*                                                                         *)
(* The specifications of the module:                                       *)
(*   SpecE2S     one run of ERA2station over one dataset                   *)
(*   SpecInterp  one call of ERAinterp2D with an explicit variable list    *)
(*   SpecLev     one run of levels2elevation, one action per station       *)
(*   SpecLevAny  the same run over level axes of either direction          *)
(*   SpecScale   ERAIscale(sfile).process() over any configured kernel list*)
(*   SpecKernel  the same over one kernel with its producers, any data     *)
(*   SpecDownload  ERAIdownload(pfile).retrieve() over any parameter file  *)
(*   SpecE2SAny  ERA2station over time axes that may repeat a timestamp    *)
(*   SpecScaleAxes  ERAIscale over input files whose time axes differ      *)
(* Python indices are kept 0-based (beg, end, n); TLA+ sequences are       *)
(* 1-based, so element k of a Python array is element k+1 of its sequence. *)
(***************************************************************************)
EXTENDS Integers, Sequences, FiniteSets, TLC

VARIABLES
    \* ---- ERA2station / ERAinterp2D ----
    nctime,      \* ncf_in.variables['time'][:]  (hours since the epoch)
    pl,          \* 'level' in ncf_in.dimensions
    date,        \* the date argument: [isNone, beg, end] (datetimes, seconds)
    cs,          \* self.cs, the chunk size
    variables,   \* the variables argument, later the list ERAinterp2D returns
    pc,          \* position of the running method (for ERAIscale.process the
                 \* name of the exception that left it); "raisedInterp" and
                 \* "raisedWrite": an exception left ERA2station from the call
                 \* of ERAinterp2D / from the write of a variable slice
    time_in,     \* nctime[tmask]
    niter,       \* number of chunks
    n,           \* loop variable of the chunk loop / of the station loop
    dfield,      \* the regridded chunk returned by ERAinterp2D
    vi,          \* position in "for i, var in enumerate(variables)" (1-based)
    out,         \* the output store ncf_out: [created, time, vars]
    \* ---- ERAinterp2D called on its own ----
    tmask_chunk, \* the chunk mask argument
    ires,        \* the outcome of the call
    \* ---- levels2elevation ----
    zlev,        \* ncf.variables['z'][:,:,n] per station: geopotential
    height,      \* station elevations [m]
    ldata,       \* one pressure-level variable: ldata[t][l] (station n)
    lout,        \* rootgrp.variables[var][:, n]: lout[var][station][step]
    lw,          \* the locals va, vb, mask, wa, wb, wt of the station loop
    \* ---- ERAIscale ----
    par,         \* the scaling parameter file: [kernels, time_step]
    inp,         \* the interpolated input files nc_pl, nc_sa, nc_sf, nc_to
    slf,         \* attributes of self set by __init__: [time_step, nt, times_out_nc]
    rg,          \* the output store self.rg: [created, time, vars]
    klog,        \* what process and the kernels printed, in order
    ki,          \* position in "for kernel_name in self.kernels" (0-based)
    \* ---- ERAIdownload ----
    dpar,        \* the download parameter file: bounding box, dates, chunk
    dirs,        \* the directories made by makedirs, in order
    reqs,        \* the requests handed to the ECMWF server, in order
    \* ---- all classes ----
    sgrids,      \* how many source grids (ESMF.Grid) have been built
    open         \* the netCDF handles that are open

e2sVars == <<nctime, pl, date, cs, variables, pc, time_in, niter, n, dfield, vi, out>>
ipVars  == <<tmask_chunk, ires>>
levVars == <<zlev, height, ldata, lout, lw>>
scVars  == <<par, inp, slf, rg, klog, ki>>
dlVars  == <<dpar, dirs, reqs>>
vars    == <<e2sVars, ipVars, levVars, scVars, dlVars, sgrids, open>>

----------------------------------------------------------------------------
(* Bounds of the model *)

MaxTime == 4      \* time values of the input axis are drawn from 1..MaxTime
MaxCs   == 3      \* chunk sizes 1..MaxCs
MaxLev  == 3      \* at most MaxLev pressure levels in levels2elevation

----------------------------------------------------------------------------
(* Generic helpers *)

Range(s) == {s[k] : k \in DOMAIN s}

Min(a, b) == IF a <= b THEN a ELSE b

Max(a, b) == IF a >= b THEN a ELSE b

Abs(x) == IF x < 0 THEN 0 - x ELSE x

IsStrictlyIncreasing(s) == \A i, j \in DOMAIN s : i < j => s[i] < s[j]

\* the elements of a finite set of integers as an increasing sequence
SortedSeq(S) ==
    CHOOSE s \in [1..Cardinality(S) -> S] : Range(s) = S /\ IsStrictlyIncreasing(s)

\* Python slice a[beg:end+1] of a 0-based array held as a sequence
Slice(s, beg, end) == SubSeq(s, beg + 1, Min(end + 1, Len(s)))

\* Python len(x[mask]) / sum(mask) for a boolean mask
CountTrue(mask) == Cardinality({k \in DOMAIN mask : mask[k]})

\* x[mask]: the elements whose mask entry is true, in order
MaskSelect(s, mask) ==
    LET idx == SortedSeq({k \in DOMAIN s : mask[k]})
    IN  [k \in DOMAIN idx |-> s[idx[k]]]

----------------------------------------------------------------------------
(* The input dataset of ERA2station / ERAinterp2D                           *)

\* datetime(3000, 1, 1), in minutes since 1900-01-01 00:00
Year3000 == 578544480

\* nc.num2date(x, units = "hours since 1900-01-01 00:00:0.0"): a datetime,
\* held as minutes since the epoch
Num2Date(x) == x * 60

\* positions in the station list, nodes of the source mesh, level indices
Stations == {1, 2}
Nodes    == {1, 2}
Levels   == {1, 2}

CoordVars(p) ==
    IF p THEN <<"longitude", "latitude", "level", "time">>
         ELSE <<"longitude", "latitude", "time">>

DataVars(p) == IF p THEN <<"z", "t">> ELSE <<"t2m", "u10">>

\* ncf_in.variables.keys()
FileVars(p) == CoordVars(p) \o DataVars(p)

\* the time axes a dataset may have: strictly increasing, at least one step
AllAxes == {SortedSeq(S) : S \in (SUBSET (1..MaxTime)) \ {{}}}

\* the gridded value of a variable at a time value, level and mesh node; each
\* (variable, time, level, node) carries its own value, so a row written to
\* the wrong place or taken from the wrong step shows in the output
GridVal(p, var, tv, lev, node) ==
    LET k == CHOOSE i \in DOMAIN DataVars(p) : DataVars(p)[i] = var
    IN  1000 * k + 100 * tv + 10 * lev + node

\* bilinear weights of the mesh nodes for a station, in quarters; station 2
\* coincides with node 2
StationWeight(s) == IF s = 1 THEN <<3, 1>> ELSE <<0, 4>>

\* regrid2D(sfield, dfield) for one variable, time step, level and station:
\* the weighted sum of the node values (numerator over the denominator 4)
Regrid(p, var, tv, lev, s) ==
    StationWeight(s)[1] * GridVal(p, var, tv, lev, 1)
    + StationWeight(s)[2] * GridVal(p, var, tv, lev, 2)

\* index set of one time slice of a variable: (level, station), level 0 for
\* files without pressure levels
RowDom(p) == (IF p THEN Levels ELSE {0}) \X Stations

Row(p, var, tv) == [x \in RowDom(p) |-> Regrid(p, var, tv, x[1], x[2])]

\* a time slice nothing was written to: netCDF fill values
FillRow(p) == [x \in RowDom(p) |-> 0 - 1]

\* globsim.generic.variables_skip: dimension and base variables are skipped
variables_skip(var) ==
    var \in {"time", "level", "latitude", "longitude", "station", "height"}

----------------------------------------------------------------------------
(* ERAinterp2D                                                              *)

NoneVars == [isNone |-> TRUE, list |-> <<>>]

\* set(varlist) == 0 in Python: a set never equals an integer
PySetEqualsInt(S, k) == FALSE

\* the chained comparison  set(variables) < set(varlist) == 0 , which Python
\* reads as (set(variables) < set(varlist)) and (set(varlist) == 0)
VariablesCheckRaises(vs, varlist) ==
    (Range(vs) \subseteq Range(varlist) /\ Range(vs) # Range(varlist))
    /\ PySetEqualsInt(Range(varlist), 0)

\* ncf_in.variables[var][tmask_chunk,:,:] and its transpose: "KeyError" for a
\* name the file does not hold, "IndexingError" for a one-dimensional
\* coordinate variable, which cannot be indexed with three indices nor
\* transposed over three axes, else "ok"
ReadVariable(p, var) ==
    IF var \notin Range(FileVars(p)) THEN "KeyError"
    ELSE IF var \in Range(CoordVars(p)) THEN "IndexingError"
    ELSE "ok"

\* varlist: the names of the file's variables without the coordinate variables
VarList(p) ==
    SelectSeq(FileVars(p),
              LAMBDA x : x \notin ({"time", "latitude", "longitude"}
                                    \cup (IF p THEN {"level"} ELSE {})))

\* ERAinterp2D with a loop that passes over the names it cannot read
ERAinterp2DSkipping(time, p, mask, req) ==
    LET vs   == IF req.isNone THEN VarList(p) ELSE req.list
        kept == SelectSeq(vs, LAMBDA x : ReadVariable(p, x) = "ok")
        sel  == MaskSelect(time, mask)
    IN  IF CountTrue(mask) = 0 THEN
            [status |-> "ValueError", variables |-> vs, data |-> <<>>]
        ELSE
            [status |-> "ok", variables |-> kept,
             data |-> [i \in DOMAIN kept |->
                         [k \in DOMAIN sel |-> Row(p, kept[i], sel[k])]]]

\* lines 894-899: every call of ERAinterp2D that passes the checks of lines
\* 876 and 891 builds the source grid from the first file of the file-set
SourceGrids(p, mask, req) ==
    LET varlist == VarList(p)
        vs      == IF req.isNone THEN varlist ELSE req.list
    IN  IF CountTrue(mask) = 0 \/ VariablesCheckRaises(vs, varlist)
        THEN 0 ELSE 1

\* The result of ERAinterp2D(ncfile_in, ncf_in, points, tmask_chunk,
\* variables): [status, variables, data]; data[i][k] is the regridded time
\* slice of variable i at the k-th selected time step.
ERAinterp2D(time, p, mask, req) ==
    LET nt      == CountTrue(mask)
        varlist == VarList(p)
        vs      == IF req.isNone THEN varlist ELSE req.list
        sel     == MaskSelect(time, mask)
        bad     == {i \in DOMAIN vs : ReadVariable(p, vs[i]) # "ok"}
        first   == CHOOSE i \in bad : \A j \in bad : i <= j
    IN  IF nt = 0 THEN
            [status |-> "ValueError", variables |-> vs, data |-> <<>>]
        ELSE IF VariablesCheckRaises(vs, varlist) THEN
            [status |-> "ValueError", variables |-> vs, data |-> <<>>]
        ELSE IF bad # {} THEN
            [status |-> ReadVariable(p, vs[first]), variables |-> vs,
             data |-> <<>>]
        ELSE
            [status |-> "ok", variables |-> vs,
             data |-> [i \in DOMAIN vs |->
                         [k \in DOMAIN sel |-> Row(p, vs[i], sel[k])]]]

----------------------------------------------------------------------------
(* ERA2station: pure parts                                                  *)

\* len(time) == 1
IsInvariant(time) == Len(time) = 1

\* a window that takes the step equal to its end as well
TimeMaskEndInclusive(time, d) ==
    [k \in DOMAIN time |->
        IF d.isNone THEN Num2Date(time[k]) < Year3000
        ELSE Num2Date(time[k]) <= d.end /\ Num2Date(time[k]) >= d.beg]

\* tmask: restrict to the date/time range if given
TimeMask(time, d) ==
    [k \in DOMAIN time |->
        IF d.isNone THEN Num2Date(time[k]) < Year3000
        ELSE Num2Date(time[k]) < d.end /\ Num2Date(time[k]) >= d.beg]

\* the chunk count without the chunk of the remainder
NiterFloor(L, c) == L \div c

\* niter = len(time_in) // cs, plus one when a remainder is left
Niter(L, c) == (L \div c) + (IF (L % c) > 0 THEN 1 ELSE 0)

\* a chunk start one step early, overlapping the chunk before
ChunkBegOverlap(k, c) == Max(k * c - 1, 0)

\* beg = n * cs
ChunkBeg(k, c) == k * c

\* end = min(n*cs + cs, len(time_in)) - 1
ChunkEnd(k, c, L) == Min(k * c + c, L) - 1

\* tmask_chunk of the chunk [beg, end]
ChunkMask(time, tin, beg, end) ==
    LET beg_time == Num2Date(tin[beg + 1])
        end_time == IF IsInvariant(time) THEN Num2Date(time[1])
                    ELSE Num2Date(tin[end + 1])
    IN  IF IsInvariant(time) THEN <<TRUE>>
        ELSE [k \in DOMAIN time |->
                 Num2Date(time[k]) <= end_time /\ Num2Date(time[k]) >= beg_time]

----------------------------------------------------------------------------
(* The output store                                                         *)

NoStore == [created |-> FALSE, time |-> <<>>, vars |-> <<>>]

\* ERAIgeneric.netCDF_empty: the schema (one variable per file variable that
\* is not skipped) with an unlimited, empty time dimension
netCDF_empty(p) ==
    [created |-> TRUE, time |-> <<>>,
     vars |-> [v \in {x \in Range(FileVars(p)) : ~variables_skip(x)} |-> <<>>]]

\* the store with its unlimited time dimension grown to len steps
Grow(store, p, len) ==
    [store EXCEPT
        !.time = [k \in 1..Max(len, Len(@)) |->
                     IF k <= Len(@) THEN @[k] ELSE 0 - 1],
        !.vars = [v \in DOMAIN @ |->
                     [k \in 1..Max(len, Len(@[v])) |->
                         IF k <= Len(@[v]) THEN @[v][k] ELSE FillRow(p)]]]

\* ncf_out.variables['time'][:] = np.append(ncf_out.variables['time'][:],
\*                                          time_in[beg:end+1])
AppendTime(store, p, slice) ==
    LET len == Len(store.time) + Len(slice)
    IN  [Grow(store, p, len) EXCEPT !.time = store.time \o slice]

\* the assignment ncf_out.variables[var][beg:end+1,:] = rows is accepted only
\* when rows holds one time slice per index of the range
ShapeOk(beg, end, rows) == Len(rows) = end - beg + 1

\* the write placed at the start of the variable instead of at beg
WriteRowsAtZero(store, p, var, beg, end, rows) ==
    [Grow(store, p, end - beg + 1) EXCEPT
        !.vars[var] = [k \in DOMAIN @ |->
                          IF k <= end - beg + 1 THEN rows[k] ELSE @[k]]]

\* ncf_out.variables[var][beg:end+1,:] = rows; the two ESMF layouts of
\* dfield.data are both brought to (time, [level], station) before the write
WriteRows(store, p, var, beg, end, rows) ==
    [Grow(store, p, end + 1) EXCEPT
        !.vars[var] = [k \in DOMAIN @ |->
                          IF beg + 1 <= k /\ k <= end + 1 THEN rows[k - beg]
                          ELSE @[k]]]

----------------------------------------------------------------------------
(* ERA2station: the run                                                     *)

\* the [beg, end) windows a caller may pass (beg = end is the dummy_date of
\* process), or no window
DateChoices ==
    {[isNone |-> TRUE, beg |-> 0, end |-> 0]}
    \cup {[isNone |-> FALSE, beg |-> Num2Date(b), end |-> Num2Date(e)] :
             b \in 1..(MaxTime + 1), e \in 1..(MaxTime + 1)}

\* the variables argument: None, an empty list, or a name absent from the file
ReqChoices ==
    {NoneVars, [isNone |-> FALSE, list |-> <<>>],
     [isNone |-> FALSE, list |-> <<"sst">>]}

\* ERAIscale not constructed
ScIdle ==
    /\ par = [kernels |-> <<>>, time_step |-> 0]
    /\ inp = <<>>
    /\ slf = <<>>
    /\ rg = NoStore
    /\ klog = <<>>
    /\ ki = 0

IpIdle  == tmask_chunk = <<>> /\ ires = [status |-> "none"]

\* ERAIdownload not constructed
DlIdle  == dpar = <<>> /\ dirs = <<>> /\ reqs = <<>>
LevIdle ==
    zlev = <<>> /\ height = <<>> /\ ldata = <<>> /\ lout = <<>> /\ lw = <<>>

E2SInit ==
    /\ nctime \in AllAxes
    /\ pl \in BOOLEAN
    /\ date \in {d \in DateChoices : d.beg <= d.end}
    /\ cs \in 1..MaxCs
    /\ variables \in ReqChoices
    /\ pc = "start"
    /\ time_in = <<>>
    /\ niter = 0
    /\ n = 0
    /\ dfield = <<>>
    /\ vi = 0
    /\ out = NoStore
    /\ open = {}
    /\ sgrids = 0
    /\ IpIdle
    /\ LevIdle
    /\ ScIdle
    /\ DlIdle

\* lines 989-1028: open the input, create the empty output store, select the
\* time steps of the window and count the chunks
E2S_Open ==
    /\ pc = "start"
    /\ out' = netCDF_empty(pl)
    /\ time_in' = MaskSelect(nctime, TimeMask(nctime, date))
    /\ niter' = Niter(Len(time_in'), cs)
    /\ n' = 0
    /\ pc' = "loop"
    /\ UNCHANGED <<nctime, pl, date, cs, variables, dfield, vi>>
    /\ UNCHANGED <<ipVars, levVars, scVars, dlVars, sgrids>>
    /\ open' = open \cup {"ncf_in", "ncf_out"}

\* the caller's list handed on to ERAinterp2D
InterpRequestPassed(req) == req

\* lines 1052-1054: ERAinterp2D is called with variables=None whatever the
\* variables argument (or the list a previous chunk returned) is
InterpRequest(req) == NoneVars

\* lines 1031-1055: the head of one chunk iteration: chunk bounds, chunk mask
\* and the call of ERAinterp2D, which raises by itself or because the
\* regridding library does (fault)
E2S_Interp ==
    /\ pc = "loop"
    /\ n < niter
    /\ \E fault \in BOOLEAN :
         LET beg == ChunkBeg(n, cs)
             end == ChunkEnd(n, cs, Len(time_in))
             r   == ERAinterp2D(nctime, pl,
                                ChunkMask(nctime, time_in, beg, end),
                                InterpRequest(variables))
         IN  IF fault \/ r.status # "ok"
             THEN /\ pc' = "raisedInterp"
                  /\ UNCHANGED <<dfield, variables>>
             ELSE /\ pc' = "time"
                  /\ dfield' = r.data
                  /\ variables' = [isNone |-> FALSE, list |-> r.variables]
    /\ sgrids' = sgrids + SourceGrids(pl, ChunkMask(nctime, time_in,
                                                   ChunkBeg(n, cs),
                                                   ChunkEnd(n, cs, Len(time_in))),
                                      InterpRequest(variables))
    /\ UNCHANGED <<nctime, pl, date, cs, time_in, niter, n, vi, out>>
    /\ UNCHANGED <<ipVars, levVars, scVars, dlVars>>
    /\ UNCHANGED open

\* lines 1057-1059: append the chunk's time values
E2S_AppendTime ==
    /\ pc = "time"
    /\ LET beg == ChunkBeg(n, cs)
           end == ChunkEnd(n, cs, Len(time_in))
       IN  out' = AppendTime(out, pl, Slice(time_in, beg, end))
    /\ vi' = 1
    /\ pc' = IF variables.list = <<>> THEN "loop" ELSE "vars"
    /\ n' = IF variables.list = <<>> THEN n + 1 ELSE n
    /\ UNCHANGED <<nctime, pl, date, cs, variables, time_in, niter, dfield>>
    /\ UNCHANGED <<ipVars, levVars, scVars, dlVars, sgrids>>
    /\ UNCHANGED open

\* lines 1062-1079: one pass of the loop over the variables: write the slice
\* of variable vi; the write raises on a shape mismatch or when the store
\* cannot be written (fault); after the last variable the chunk loop goes on
E2S_WriteVar ==
    /\ pc = "vars"
    /\ vi <= Len(variables.list)
    /\ \E fault \in BOOLEAN :
         LET beg == ChunkBeg(n, cs)
             end == ChunkEnd(n, cs, Len(time_in))
             var == variables.list[vi]
             last == vi = Len(variables.list)
         IN  IF variables_skip(var)
             THEN /\ out' = out
                  /\ pc' = IF last THEN "loop" ELSE "vars"
                  /\ n' = IF last THEN n + 1 ELSE n
                  /\ vi' = vi + 1
             ELSE IF fault \/ ~ShapeOk(beg, end, dfield[vi])
             THEN /\ pc' = "raisedWrite"
                  /\ UNCHANGED <<out, n, vi>>
             ELSE /\ out' = WriteRows(out, pl, var, beg, end, dfield[vi])
                  /\ pc' = IF last THEN "loop" ELSE "vars"
                  /\ n' = IF last THEN n + 1 ELSE n
                  /\ vi' = vi + 1
    /\ UNCHANGED <<nctime, pl, date, cs, variables, time_in, niter, dfield>>
    /\ UNCHANGED <<ipVars, levVars, scVars, dlVars, sgrids>>
    /\ UNCHANGED open

\* lines 1081-1083: the loop is over: close the files
E2S_Close ==
    /\ pc = "loop"
    /\ n >= niter
    /\ pc' = "done"
    /\ UNCHANGED <<nctime, pl, date, cs, variables, time_in, niter, n, dfield,
                   vi, out>>
    /\ UNCHANGED <<ipVars, levVars, scVars, dlVars, sgrids>>
    /\ open' = open \ {"ncf_in", "ncf_out"}

E2SNext ==
    \/ E2S_Open
    \/ E2S_Interp
    \/ E2S_AppendTime
    \/ E2S_WriteVar
    \/ E2S_Close

SpecE2S == E2SInit /\ [][E2SNext]_vars

----------------------------------------------------------------------------
(* Properties of ERA2station                                                *)

\* the run of ERA2station with the whole selected range as its one chunk:
\* chunk [0, L-1], one call of ERAinterp2D, one append, one write per variable
RECURSIVE WriteAll(_, _, _, _, _, _, _)
WriteAll(store, p, vs, data, beg, end, k) ==
    IF k = 0 THEN store
    ELSE LET before == WriteAll(store, p, vs, data, beg, end, k - 1)
         IN  IF variables_skip(vs[k]) THEN before
             ELSE WriteRows(before, p, vs[k], beg, end, data[k])

WholeRangeStore(time, p, d) ==
    LET tin == MaskSelect(time, TimeMask(time, d))
        L   == Len(tin)
        r   == ERAinterp2D(time, p, ChunkMask(time, tin, 0, L - 1), NoneVars)
    IN  IF L = 0 THEN netCDF_empty(p)
        ELSE WriteAll(AppendTime(netCDF_empty(p), p, Slice(tin, 0, L - 1)),
                      p, r.variables, r.data, 0, L - 1, Len(r.variables))

\* C1: whatever the chunk size cs >= 1, a run that finishes leaves the output
\* store (time axis and every variable's value at every time index, level
\* and station) that processing the whole selected range as one chunk leaves.
C1_ChunkSizeNotObservable ==
    pc = "done" => out = WholeRangeStore(nctime, pl, date)

\* a finished run of several chunks, the last one shorter than cs
C1_Witness ==
    /\ pc = "done"
    /\ niter >= 2
    /\ (Len(time_in) % cs) # 0
    /\ Len(out.time) = Len(time_in)

\* the chunk ranges [beg, end] of L selected steps and chunk size N
ChunkPartitionOk(L, N) ==
    LET K    == Niter(L, N)
        B(k) == ChunkBeg(k, N)
        E(k) == ChunkEnd(k, N, L)
    IN  /\ L = 0 => K = 0
        /\ \A i \in 0..(L - 1) :
              Cardinality({k \in 0..(K - 1) : B(k) <= i /\ i <= E(k)}) = 1
        /\ \A k \in 0..(K - 1) :
              /\ 0 <= B(k) /\ E(k) <= L - 1
              /\ 1 <= E(k) - B(k) + 1 /\ E(k) - B(k) + 1 <= N
              /\ k < K - 1 => E(k) - B(k) + 1 = N
        /\ \A k \in 0..(K - 2) : B(k + 1) = E(k) + 1
        /\ K > 0 => B(0) = 0 /\ E(K - 1) = L - 1

\* C2: the chunk index ranges computed from the number of selected steps and
\* the chunk size are contiguous and non-overlapping, cover every index
\* 0..L-1 exactly once, hold between 1 and cs steps each, and only the last
\* one may hold fewer than cs steps.
C2_ChunksPartitionRange ==
    /\ ChunkPartitionOk(Len(time_in), cs)
    /\ pc # "start" => niter = Niter(Len(time_in), cs)

\* three selected steps in chunks of two: a full chunk and a short last one
C2_Witness ==
    /\ pc = "vars"
    /\ Len(time_in) = 3
    /\ cs = 2
    /\ n = 1
    /\ ChunkEnd(n, cs, Len(time_in)) = ChunkBeg(n, cs)

\* the time values of the first k chunks, chunk after chunk
RECURSIVE ConcatChunks(_, _, _)
ConcatChunks(tin, c, k) ==
    IF k = 0 THEN <<>>
    ELSE ConcatChunks(tin, c, k - 1)
         \o Slice(tin, ChunkBeg(k - 1, c), ChunkEnd(k - 1, c, Len(tin)))

\* the number of chunks whose time values have been appended
ChunksAppended == IF pc \in {"vars", "raisedWrite"} THEN n + 1 ELSE n

\* C3: at every point of a run the output time axis is the concatenation, in
\* increasing chunk order, of the time values of the chunks appended so far,
\* it is strictly increasing, and when the run has finished it is the
\* sequence of the selected input time values in their original order.
C3_TimeAxisIsChunkConcatenation ==
    /\ out.time = ConcatChunks(time_in, cs, ChunksAppended)
    /\ IsStrictlyIncreasing(out.time)
    /\ out.time = SubSeq(time_in, 1, Len(out.time))
    /\ pc = "done" => out.time = time_in

\* a finished run that appended three chunks
C3_Witness ==
    /\ pc = "done"
    /\ niter = 3
    /\ Len(out.time) >= 3

\* an exception has left ERA2station
Failed == pc \in {"raisedInterp", "raisedWrite"}

\* the rows of a variable that hold data
Written(p, rows) == {k \in DOMAIN rows : rows[k] # FillRow(p)}

\* C4: when a run has failed in chunk n, the output store holds exactly the
\* steps of the completed chunks 0..n-1: the time axis and every variable
\* have ChunkBeg(n) steps, all of them written.
C4_FailedChunkLeavesNoPart ==
    Failed =>
        /\ Len(out.time) = ChunkBeg(n, cs)
        /\ \A v \in DOMAIN out.vars :
              /\ Len(out.vars[v]) = ChunkBeg(n, cs)
              /\ Written(pl, out.vars[v]) = 1..ChunkBeg(n, cs)

\* C5: a run whose window selects no time step ends in failure, and it does
\* not leave a created store with zero time steps.
C5_EmptySelectionFails ==
    ((pc = "done" \/ Failed) /\ Len(time_in) = 0) =>
        /\ Failed
        /\ ~(out.created /\ Len(out.time) = 0)

\* C6: a finished run over an invariant dataset (one input time step) leaves
\* exactly one time step in the output store, whatever the window.
C6_InvariantYieldsOneStep ==
    (pc = "done" /\ IsInvariant(nctime)) => Len(out.time) = 1

----------------------------------------------------------------------------
(* ERAinterp2D called with an explicit variable list                        *)

\* the names a caller may ask for: the file's data variables, a name the
\* file does not hold, and a coordinate variable
ReqPool(p) == DataVars(p) \o <<"sst", "time">>

InterpReqChoices(p) ==
    {NoneVars}
    \cup {[isNone |-> FALSE,
           list |-> [k \in 1..Cardinality(S) |-> ReqPool(p)[SortedSeq(S)[k]]]] :
             S \in SUBSET (DOMAIN ReqPool(p))}

InterpInit ==
    /\ nctime \in AllAxes
    /\ pl \in BOOLEAN
    /\ tmask_chunk \in [DOMAIN nctime -> BOOLEAN]
    /\ variables \in InterpReqChoices(pl)
    /\ pc = "call"
    /\ ires = [status |-> "none"]
    /\ date = [isNone |-> TRUE, beg |-> 0, end |-> 0]
    /\ cs = 1
    /\ time_in = <<>>
    /\ niter = 0
    /\ n = 0
    /\ dfield = <<>>
    /\ vi = 0
    /\ out = NoStore
    /\ open = {"ncf_in"}
    /\ sgrids = 0
    /\ LevIdle
    /\ ScIdle
    /\ DlIdle

\* lines 830-951: one call of ERAinterp2D
IP_Call ==
    /\ pc = "call"
    /\ ires' = ERAinterp2D(nctime, pl, tmask_chunk, variables)
    /\ pc' = "returned"
    /\ sgrids' = sgrids + SourceGrids(pl, tmask_chunk, variables)
    /\ UNCHANGED <<nctime, pl, date, cs, variables, time_in, niter, n, dfield,
                   vi, out, tmask_chunk>>
    /\ UNCHANGED <<levVars, scVars, dlVars>>
    /\ UNCHANGED open

InterpNext == IP_Call

SpecInterp == InterpInit /\ [][InterpNext]_vars

\* C7: a call of ERAinterp2D whose requested names are not all among the
\* data variables of the dataset ends with an error, and a call that returns
\* normally returns every requested name with a regridded field for it.
C7_AbsentVariableRaises ==
    (pc = "returned" /\ ~variables.isNone) =>
        /\ ~(Range(variables.list) \subseteq Range(VarList(pl)))
              => ires.status \in {"ValueError", "KeyError", "IndexingError"}
        /\ ires.status = "ok" =>
              /\ ires.variables = variables.list
              /\ Len(ires.data) = Len(variables.list)

\* a call that selects time steps, asks for a present and an absent name, and
\* ends with the error of the read of the absent one
C7_Witness ==
    /\ pc = "returned"
    /\ CountTrue(tmask_chunk) > 0
    /\ ~variables.isNone
    /\ Range(variables.list) = {DataVars(pl)[1], "sst"}
    /\ ires.status = "KeyError"

----------------------------------------------------------------------------
(* levels2elevation: pure parts                                             *)

\* Standard gravity 9.80665 m/s2 is the fraction 196133/20000.  Geopotential
\* values are held in units of 1/20000 m2/s2, so that z / 9.80665 in metres
\* is the held value divided by 196133.
GravityNum == 196133

\* added to the elevation difference of the levels below the station
BelowPenalty == 100000

\* ele = ncf.variables['z'][:,:,n] / 9.80665  for one value
Ele(z) == z \div GravityNum

\* the difference taken the other way round, h - ele
DeleFlipped(zcol, h) == [t \in DOMAIN zcol |-> [l \in DOMAIN zcol[t] |-> h - Ele(zcol[t][l])]]

\* dele = ele - h : dele[t][l]
Dele(zcol, h) == [t \in DOMAIN zcol |-> [l \in DOMAIN zcol[t] |-> Ele(zcol[t][l]) - h]]

\* the elevation difference without the penalty of the levels below
Unpenalised(d) == d

\* dele + (dele < 0) * 100000 for one value
Penalised(d) == d + (IF d < 0 THEN 1 ELSE 0) * BelowPenalty

\* the 0-based index of the first largest value instead
ArgMax(row) ==
    (CHOOSE i \in DOMAIN row :
        /\ \A j \in DOMAIN row : row[i] >= row[j]
        /\ \A j \in DOMAIN row : (j < i) => row[j] < row[i]) - 1

\* np.argmin of one row: the 0-based index of the first smallest value
ArgMin(row) ==
    (CHOOSE i \in DOMAIN row :
        /\ \A j \in DOMAIN row : row[i] <= row[j]
        /\ \A j \in DOMAIN row : (j < i) => row[j] > row[i]) - 1

\* array.ravel()[i] of a (time, level) array with nl levels, i 0-based
RavelAt(m, nl, i) == m[(i \div nl) + 1][(i % nl) + 1]

\* a value that a floating-point division produced: num/den, or NaN for 0/0
Quot(num, den) ==
    IF den = 0 THEN [kind |-> "nan", num |-> 0, den |-> 0]
    ELSE [kind |-> "num", num |-> num, den |-> den]

FillValue == [kind |-> "fill", num |-> 0, den |-> 0]

\* lines 1170-1188 for one station: for every time step (0-based t) the
\* flattened indices va and vb and the weights; wa and wb are the numerators
\* of the normalised weights over the denominator wt
Brackets(zcol, h, nl) ==
    LET dele == Dele(zcol, h)
    IN  [t \in DOMAIN zcol |->
           LET va0  == ArgMin([l \in DOMAIN dele[t] |-> Penalised(dele[t][l])])
               mask == va0 < nl - 1
               va   == va0 + (t - 1) * nl
               vb   == va + (IF mask THEN 1 ELSE 0)
               wa   == Abs(RavelAt(dele, nl, vb))
               wb   == Abs(RavelAt(dele, nl, va))
           IN  [va |-> va, vb |-> vb, mask |-> mask,
                wa |-> wa, wb |-> wb, wt |-> wa + wb]]

\* the sum without the term of vb
IpolAboveOnly(data, nl, b) ==
    Quot(RavelAt(data, nl, b.va) * b.wa, b.wt)

\* ipol = data[va]*wa + data[vb]*wb  with wa, wb divided by wt before
Ipol(data, nl, b) ==
    Quot(RavelAt(data, nl, b.va) * b.wa + RavelAt(data, nl, b.vb) * b.wb, b.wt)

\* ncf.variables['level'][:]: the pressure of level l [hPa], rising with l
LevelPressure(l) == 600 + 100 * l

\* the level heights of one step rise with the level index: the file lists
\* its pressure levels from the highest pressure to the lowest
HeightsRising(zrow) ==
    /\ Len(zrow) > 1
    /\ \A l \in 1..(Len(zrow) - 1) : Ele(zrow[l]) < Ele(zrow[l + 1])

\* the data of a variable as a (time, level) array: the level pressures
\* repeated for every step for air_pressure, else the values of the file
VarData(var, zcol, data) ==
    IF var = "air_pressure"
    THEN [t \in DOMAIN zcol |-> [l \in DOMAIN zcol[t] |->
              IF HeightsRising(zcol[t])
              THEN LevelPressure(Len(zcol[t]) + 1 - l)
              ELSE LevelPressure(l)]]
    ELSE data

\* varlist after the append of air_pressure (z itself is removed from it)
LevVarList == <<"t", "air_pressure">>

----------------------------------------------------------------------------
(* levels2elevation: the run                                                *)

\* heights of pressure levels [m], station elevations [m], data values
HeightVals   == {0, 100, 200, 300}
StationElevs == {0, 50, 100, 250, 400}
DataVals     == {10, 30}
Steps        == {1, 2}

\* level heights of one time step: falling with the level index, as the
\* pressure rises with it; given as geopotential
Profiles(nl) ==
    {[l \in 1..nl |-> GravityNum * prof[nl + 1 - l]] :
        prof \in {SortedSeq(S) : S \in {T \in SUBSET HeightVals : Cardinality(T) = nl}}}

E2SIdle ==
    /\ nctime = <<>> /\ pl = TRUE /\ cs = 1 /\ variables = NoneVars
    /\ date = [isNone |-> TRUE, beg |-> 0, end |-> 0]
    /\ time_in = <<>> /\ niter = 0 /\ dfield = <<>> /\ vi = 0 /\ out = NoStore

\* the same heights listed from the lowest level to the highest: a file
\* whose pressure falls with the level index
ProfilesRising(nl) ==
    {[l \in 1..nl |-> prof[nl + 1 - l]] : prof \in Profiles(nl)}

\* a file with nl levels whose z is one of axes, before levels2elevation runs
LevStart(nl, axes) ==
    /\ zlev \in axes
    /\ \E base \in [1..nl -> DataVals] :
         ldata = [t \in Steps |-> [l \in 1..nl |-> base[l] + 100 * (t - 1)]]
    /\ height \in [1..2 -> StationElevs]
    /\ lout = <<>>
    /\ lw = <<>>
    /\ pc = "start"
    /\ n = 0
    /\ open = {}
    /\ sgrids = 0
    /\ E2SIdle
    /\ IpIdle
    /\ ScIdle
    /\ DlIdle

\* the files that ERAIpl downloads: getDictionary lists the levels by rising
\* pressure, so the heights fall with the level index
LevInit == \E nl \in 0..MaxLev : LevStart(nl, [Steps -> Profiles(nl)])

\* any file with a sorted level axis, of either direction
LevAnyInit ==
    \E nl \in 0..MaxLev :
        LevStart(nl, [Steps -> Profiles(nl)] \cup [Steps -> ProfilesRising(nl)])

NLev == Len(zlev[1])

\* lines 1094-1162: open the input, create the output file and its variables
LEV_Open ==
    /\ pc = "start"
    /\ lout' = [v \in Range(LevVarList) |->
                  [s \in DOMAIN height |-> [t \in DOMAIN zlev |-> FillValue]]]
    /\ n' = 0
    /\ pc' = "stations"
    /\ UNCHANGED <<zlev, height, ldata, lw>>
    /\ UNCHANGED <<nctime, pl, date, cs, variables, time_in, niter, dfield, vi, out>>
    /\ UNCHANGED <<ipVars, scVars, dlVars, sgrids>>
    /\ open' = open \cup {"ncf", "rootgrp"}

\* lines 1165-1200: one pass of the loop over the stations; np.argmin raises
\* on an empty level axis
LEV_Station ==
    /\ pc = "stations"
    /\ n < Len(height)
    /\ IF NLev = 0
       THEN /\ pc' = "raisedArgmin"
            /\ UNCHANGED <<lout, lw, n>>
       ELSE LET b == Brackets(zlev, height[n + 1], NLev)
            IN  /\ lw' = b
                /\ lout' = [v \in DOMAIN lout |->
                              [lout[v] EXCEPT ![n + 1] =
                                 [t \in DOMAIN zlev |->
                                    Ipol(VarData(v, zlev, ldata), NLev, b[t])]]]
                /\ n' = n + 1
                /\ pc' = pc
    /\ UNCHANGED <<zlev, height, ldata>>
    /\ UNCHANGED <<nctime, pl, date, cs, variables, time_in, niter, dfield, vi, out>>
    /\ UNCHANGED <<ipVars, scVars, dlVars, sgrids>>
    /\ UNCHANGED open

\* lines 1202-1203: close the files
LEV_Close ==
    /\ pc = "stations"
    /\ n >= Len(height)
    /\ pc' = "done"
    /\ UNCHANGED <<n, levVars>>
    /\ UNCHANGED <<nctime, pl, date, cs, variables, time_in, niter, dfield, vi, out>>
    /\ UNCHANGED <<ipVars, scVars, dlVars, sgrids>>
    /\ open' = open \ {"rootgrp", "ncf"}

LevNext ==
    \/ LEV_Open
    \/ LEV_Station
    \/ LEV_Close

SpecLev == LevInit /\ [][LevNext]_vars

SpecLevAny == LevAnyInit /\ [][LevNext]_vars

----------------------------------------------------------------------------
(* Properties of levels2elevation                                           *)

\* the stations whose column has been written
StationsDone == IF pc \in {"stations", "done"} THEN 1..n ELSE {}

\* level heights [m] minus the elevation of station s, per step and level
DeleOf(s) == Dele(zlev, height[s])

\* the value x = num/den lies between a and b
Between(x, a, b) ==
    /\ x.kind = "num"
    /\ x.den > 0
    /\ Min(a, b) * x.den <= x.num
    /\ x.num <= Max(a, b) * x.den

\* C8: where the elevation of a station lies strictly between the heights of
\* two adjacent levels l (above) and l+1 (below) at a time step, the two
\* weights are non-negative and sum to 1 (numerators wa, wb over the non-zero
\* denominator wt), and the value written for every variable lies between the
\* values of that variable at levels l and l+1.
C8_WeightsConvexBetweenLevels ==
    \A s \in StationsDone : \A t \in DOMAIN zlev : \A l \in 1..(NLev - 1) :
        (DeleOf(s)[t][l] > 0 /\ DeleOf(s)[t][l + 1] < 0) =>
            /\ s = n =>
                 /\ lw[t].wa >= 0 /\ lw[t].wb >= 0
                 /\ lw[t].wt > 0
                 /\ lw[t].wa + lw[t].wb = lw[t].wt
                 /\ lw[t].va = (t - 1) * NLev + (l - 1)
                 /\ lw[t].vb = lw[t].va + 1
            /\ \A v \in DOMAIN lout :
                 Between(lout[v][s][t],
                         VarData(v, zlev, ldata)[t][l],
                         VarData(v, zlev, ldata)[t][l + 1])

\* a station strictly between the second and third of three levels at the
\* second time step, with unequal weights and unequal data at the two levels
C8_Witness ==
    /\ pc = "stations"
    /\ n = 1
    /\ NLev = 3
    /\ DeleOf(1)[2][2] > 0 /\ DeleOf(1)[2][3] < 0
    /\ lw[2].wa # lw[2].wb
    /\ ldata[2][2] # ldata[2][3]
    /\ lout["t"][1][2].kind = "num"

\* the level with the smallest height at step t
LowestLevel(t) ==
    CHOOSE l \in DOMAIN zlev[t] : \A j \in DOMAIN zlev[t] : Ele(zlev[t][l]) <= Ele(zlev[t][j])

\* C9: where the elevation of a station is below the height of the lowest
\* level at a time step, the value written for every variable is exactly the
\* value of that variable at the lowest level at that step.
C9_BelowLowestTakesLowestValue ==
    \A s \in StationsDone : \A t \in DOMAIN zlev :
        (NLev > 0 /\ \A l \in DOMAIN zlev[t] : DeleOf(s)[t][l] > 0) =>
            \A v \in DOMAIN lout :
                /\ lout[v][s][t].kind = "num"
                /\ lout[v][s][t].den > 0
                /\ lout[v][s][t].num =
                      VarData(v, zlev, ldata)[t][LowestLevel(t)] * lout[v][s][t].den

\* a station below all of three levels at both steps, the levels holding
\* different values
C9_Witness ==
    /\ pc = "done"
    /\ NLev = 3
    /\ \A t \in DOMAIN zlev : \A l \in DOMAIN zlev[t] : DeleOf(2)[t][l] > 0
    /\ ldata[1][3] # ldata[1][2]
    /\ lout["t"][2][1] = Quot(ldata[1][3] * lw[1].wt, lw[1].wt)

\* C10: with a non-empty level axis every value written is a defined number,
\* and the run raises only when the level axis is empty.
C10_DefinedUnlessNoLevels ==
    /\ NLev > 0 =>
          \A s \in StationsDone : \A t \in DOMAIN zlev : \A v \in DOMAIN lout :
              lout[v][s][t].kind = "num"
    /\ pc = "raisedArgmin" => NLev = 0

\* the heights [m] of the levels at step t, and the 1-based level that a
\* flattened index of step t points at
HeightAt(t, l) == Ele(zlev[t][l])
LevelOf(t, i) == i - (t - 1) * NLev + 1

\* level a is the level of smallest height at or above elevation h at step t
IsAbove(t, h, a) ==
    /\ a \in DOMAIN zlev[t]
    /\ HeightAt(t, a) >= h
    /\ \A l \in DOMAIN zlev[t] : HeightAt(t, l) >= h => HeightAt(t, a) <= HeightAt(t, l)

\* level b is the level next below level a at step t, if a has one
IsNextBelow(t, a, b) ==
    (\E l \in DOMAIN zlev[t] : HeightAt(t, l) < HeightAt(t, a)) =>
        /\ b \in DOMAIN zlev[t]
        /\ HeightAt(t, b) < HeightAt(t, a)
        /\ \A l \in DOMAIN zlev[t] :
              HeightAt(t, l) < HeightAt(t, a) => HeightAt(t, l) <= HeightAt(t, b)

\* the station processed last has its brackets in lw
BracketsHeld == pc \in {"stations", "done"} /\ n >= 1 /\ NLev > 0

\* at step t the indices va and vb of the station processed last point at the
\* level above and at the level next below it
SelectsAboveAndBelow(t) ==
    /\ IsAbove(t, height[n], LevelOf(t, lw[t].va))
    /\ IsNextBelow(t, LevelOf(t, lw[t].va), LevelOf(t, lw[t].vb))

\* C11 as stated: for every station and time step at which at least one level
\* has a height >= the station elevation, 'above' is the level of smallest
\* height >= the elevation and 'below' is the adjacent level of lower height,
\* whichever way the level axis is sorted.
C11_BracketEverySortedAxis ==
    BracketsHeld =>
        \A t \in DOMAIN zlev :
            (\E l \in DOMAIN zlev[t] : HeightAt(t, l) >= height[n]) =>
                SelectsAboveAndBelow(t)

\* C11 amended: the same selection, for a level axis whose pressure rises with
\* the level index (heights falling), the order in which ERAIpl requests the
\* levels.
C11_BracketRisingPressureAxis ==
    BracketsHeld =>
        \A t \in DOMAIN zlev :
            (/\ ~HeightsRising(zlev[t])
             /\ \E l \in DOMAIN zlev[t] : HeightAt(t, l) >= height[n]) =>
                SelectsAboveAndBelow(t)

\* a station between the first and the second of three levels of falling
\* height: the second level is not the one of least penalised difference in
\* index order only, and a level lies below it
C11_Witness ==
    /\ BracketsHeld
    /\ NLev = 3
    /\ ~HeightsRising(zlev[1])
    /\ HeightAt(1, 1) > height[n] /\ HeightAt(1, 2) > height[n]
    /\ HeightAt(1, 3) < height[n]
    /\ LevelOf(1, lw[1].va) = 2 /\ LevelOf(1, lw[1].vb) = 3

\* C12: at a time step where no level has a height >= the station elevation,
\* the level of smallest height is selected as 'above' and as 'below', and the
\* value written for every variable is the value of that level.
C12_AboveAllTakesLowestLevel ==
    (pc \in {"stations", "done"} /\ NLev > 0) =>
        \A s \in StationsDone : \A t \in DOMAIN zlev :
            (\A l \in DOMAIN zlev[t] : HeightAt(t, l) < height[s]) =>
                /\ s = n =>
                     /\ LevelOf(t, lw[t].va) = LowestLevel(t)
                     /\ LevelOf(t, lw[t].vb) = LowestLevel(t)
                /\ \A v \in DOMAIN lout :
                     /\ lout[v][s][t].kind = "num"
                     /\ lout[v][s][t].den > 0
                     /\ lout[v][s][t].num =
                           VarData(v, zlev, ldata)[t][LowestLevel(t)] * lout[v][s][t].den

\* a station above all of three levels at the first step; the lowest level
\* holds another value than the level above it
C12_Witness ==
    /\ pc = "stations"
    /\ n = 1
    /\ NLev = 3
    /\ \A l \in DOMAIN zlev[1] : HeightAt(1, l) < height[1]
    /\ ldata[1][3] # ldata[1][2]
    /\ LevelOf(1, lw[1].va) = 3
    /\ lout["t"][1][1] = Quot(ldata[1][3] * lw[1].wt, lw[1].wt)

----------------------------------------------------------------------------
(* Exact fractions: the values of the scaled series                         *)

RECURSIVE GCD(_, _)
GCD(a, b) == IF b = 0 THEN a ELSE GCD(b, a % b)

\* the fraction num/den (den # 0) in lowest terms with a positive denominator
Rat(num, den) ==
    LET g == GCD(Abs(num), Abs(den))
        s == IF den < 0 THEN 0 - 1 ELSE 1
    IN  [kind |-> "num", num |-> (s * num) \div g, den |-> (s * den) \div g]

RAdd(x, y) ==
    LET g == GCD(x.den, y.den)
    IN  Rat(x.num * (y.den \div g) + y.num * (x.den \div g), (x.den \div g) * y.den)

RSub(x, y) == RAdd(x, [y EXCEPT !.num = 0 - @])

RMul(x, y) ==
    LET g1 == GCD(Abs(x.num), y.den)
        g2 == GCD(Abs(y.num), x.den)
    IN  Rat((x.num \div g1) * (y.num \div g2), (x.den \div g2) * (y.den \div g1))

RLe(x, y) == x.num * y.den <= y.num * x.den

NaN == [kind |-> "nan", num |-> 0, den |-> 0]

\* x / k as numpy divides: a zero divisor gives no number
RDivInt(x, k) == IF k = 0 THEN NaN ELSE RMul(x, Rat(1, k))

\* array.clip(min=lo, max=hi) for one value
Clip(x, lo, hi) == IF RLe(x, lo) THEN lo ELSE IF RLe(hi, x) THEN hi ELSE x

----------------------------------------------------------------------------
(* ERAIscale: the input files and the time axis of __init__                 *)

MaxKernels == 2   \* at most MaxKernels names in the configured kernel list
MaxIn      == 3   \* at most MaxIn time steps in the interpolated input files

\* (b - a).total_seconds() and (b - a).seconds of two datetimes a <= b, which
\* are held in minutes: .seconds leaves out the whole days
TotalSeconds(a, b)     == (b - a) * 60
TimedeltaSeconds(a, b) == ((b - a) * 60) % 86400

\* nc.date2num(d, 'seconds since 1900-01-01 00:00:00')
Date2NumSec(d) == d * 60

\* mt + timedelta(seconds = x)
PlusSeconds(d, x) == d + (x \div 60)

SeqMin(s) == CHOOSE v \in Range(s) : \A w \in Range(s) : v <= w
SeqMax(s) == CHOOSE v \in Range(s) : \A w \in Range(s) : v >= w

\* the number of output steps without the last value
NtWithoutLast(time, step) ==
    (TotalSeconds(SeqMin(time), SeqMax(time)) \div 3600) \div step

\* self.nt = int(floor((max(time) - min(time)).total_seconds() / 3600
\*                     / par.time_step)) + 1      (time: datetimes)
Nt(time, step) ==
    ((TotalSeconds(SeqMin(time), SeqMax(time)) \div 3600) \div step) + 1

\* self.times_out_nc: the datetimes mt + x*time_step for x in range(nt),
\* written as seconds since 1900
TimesOutNc(time, step) ==
    [k \in 1..Nt(time, step) |->
        Date2NumSec(PlusSeconds(SeqMin(time), (k - 1) * (step * 3600)))]

----------------------------------------------------------------------------
(* ERAIscale: functions of globsim.generic and scipy, the output store      *)

\* time_in * 3600: hours to seconds
Hours2Sec(time) == [k \in DOMAIN time |-> time[k] * 3600]

\* x lies within the range of the nodes xs
InRange(xs, x) == \E i \in 1..(Len(xs) - 1) : xs[i] <= x /\ x <= xs[i + 1]

\* linear interpolation between the two nodes that enclose x
LinAt(xs, ys, x) ==
    LET i == CHOOSE j \in 1..(Len(xs) - 1) : xs[j] <= x /\ x <= xs[j + 1]
    IN  RAdd(ys[i], RMul(RSub(ys[i + 1], ys[i]), Rat(x - xs[i], xs[i + 1] - xs[i])))

\* f = scipy.interpolate.interp1d(xs, ys, kind = 'linear'); f(xout): raises
\* ValueError for a value of xout outside the range of xs
interp1d(xs, ys, xout) ==
    IF \A k \in DOMAIN xout : InRange(xs, xout[k])
    THEN [status |-> "returned", vals |-> [k \in DOMAIN xout |-> LinAt(xs, ys, xout[k])]]
    ELSE [status |-> "ValueError", vals |-> <<>>]

\* globsim.generic.series_interpolate(time_out, time_in, value_in): the
\* direct linear interpolation of one series onto the output grid
series_interpolate(time_out, time_in_s, value_in) ==
    interp1d(time_in_s, value_in, time_out)

\* every ResetEvery-th step of a cumulative series starts a new accumulation
ResetEvery == 2

StartsAccumulation(k) == (k - 1) % ResetEvery = 0

\* the cumulative series that the per-interval totals add up to
Accumulate(totals) ==
    [k \in DOMAIN totals |->
        IF StartsAccumulation(k) THEN totals[k]
        ELSE RAdd(totals[k - 1], totals[k])]

\* the cumulative series left as it is
cummulativeKept(data, time) == data

\* globsim.generic.cummulative2total(data, time): the total of every native
\* interval of a cumulative series
cummulative2total(data, time) ==
    [k \in DOMAIN data |->
        IF StartsAccumulation(k) THEN data[k]
        ELSE RSub(data[k], data[k - 1])]

\* the store not created
ScaledFileNotOpened(times_out_nc) ==
    [created |-> FALSE, time |-> times_out_nc, vars |-> <<>>]

\* globsim.generic.ScaledFileOpen: the new output store with its base
\* variables (time, station) and no other variable
ScaledFileOpen(times_out_nc) ==
    [created |-> TRUE, time |-> times_out_nc, vars |-> <<>>]

\* the names of the variables that the kernels added
AddedVars(store) == DOMAIN store.vars

\* self.rg.createVariable(vn, 'f4', ('time', 'station')): all values masked
createVariable(store, vn, nstation) ==
    [store EXCEPT !.vars =
        [v \in (DOMAIN @) \cup {vn} |->
            IF v = vn
            THEN [st \in 1..nstation |-> [k \in DOMAIN store.time |-> FillValue]]
            ELSE @[v]]]

\* self.rg.variables[vn][:, :] = cols
setVariable(store, vn, cols) == [store EXCEPT !.vars[vn] = cols]

\* what a kernel hands back to process: it returned or raised, the output
\* store as it left it, and what it printed
KernelResult(status, store, printed) ==
    [status |-> status, rg |-> store, printed |-> printed]

\* the columns of all stations from one interp1d result per station, or the
\* exception of the first station whose interpolation raised
AllStations(nstation, perStation(_)) ==
    IF \E st \in 1..nstation : perStation(st).status # "returned"
    THEN [status |-> "ValueError", cols |-> <<>>]
    ELSE [status |-> "returned", cols |-> [st \in 1..nstation |-> perStation(st).vals]]

\* values[:, n] - 273.15 and the other conversions of a whole series
MapSeries(series, f(_)) == [k \in DOMAIN series |-> f(series[k])]

Kelvin2C(x)  == RSub(x, Rat(27315, 100))
C2Kelvin(x)  == RAdd(x, Rat(27315, 100))

----------------------------------------------------------------------------
(* ERAIscale: the kernels.  Each one takes the output store as it finds it  *)
(* and gives back a KernelResult; inp and slf are the state of the object.  *)

NStation == inp.to.nstation

\* "for n, s in enumerate(stations): series_interpolate(self.times_out_nc,
\* time_in*3600, pre(values[:, n]))" with post applied to what it returns
InterpCols(tin, values, pre(_), post(_)) ==
    LET r == AllStations(NStation,
                 LAMBDA st : series_interpolate(slf.times_out_nc, Hours2Sec(tin),
                                                MapSeries(values[st], pre)))
    IN  IF r.status # "returned" THEN r
        ELSE [status |-> "returned",
              cols |-> [st \in 1..NStation |-> MapSeries(r.cols[st], post)]]

Same(x) == x
Times100(x) == RMul(x, Rat(100, 1))

\* a kernel that creates vn and then fills it with the interpolated series
CreateThenInterpolate(store, vn, tin, values, pre(_), post(_)) ==
    IF vn \in AddedVars(store) THEN KernelResult("RuntimeError", store, <<>>)
    ELSE LET st1 == createVariable(store, vn, NStation)
             r   == InterpCols(tin, values, pre, post)
         IN  IF r.status # "returned" THEN KernelResult(r.status, st1, <<>>)
             ELSE KernelResult("returned", setVariable(st1, vn, r.cols), <<>>)

PRESS_Pa_pl(store) ==
    CreateThenInterpolate(store, "PRESS_ERAI_Pa_pl", inp.pl.time,
                          inp.pl.air_pressure, Same, Times100)

AIRT_C_pl(store) ==
    CreateThenInterpolate(store, "AIRT_ERAI_C_pl", inp.pl.time, inp.pl.t,
                          Kelvin2C, Same)

AIRT_C_sur(store) ==
    CreateThenInterpolate(store, "AIRT_ERAI_C_sur", inp.sa.time, inp.sa.t2m,
                          Kelvin2C, Same)

\* prints its placeholder and returns
AIRT_redcapp(store) == KernelResult("returned", store, <<"AIRT_ERAI_redcapp">>)

\* the interpolated rate left as a rate
FluxColumnRate(values_n) ==
    LET time        == MapSeries(inp.sf.time, Num2Date)
        interval_in == TimedeltaSeconds(time[1], time[2])
        rate        == MapSeries(cummulative2total(values_n, time),
                                 LAMBDA x : RDivInt(x, interval_in))
    IN  interp1d(Hours2Sec(inp.sf.time), rate, slf.times_out_nc)

\* f(self.times_out_nc) * self.time_step of the rate of one station, where
\* f = interp1d(time_in*3600, cummulative2total(values[:, n], time)/interval_in)
FluxColumn(values_n) ==
    LET time        == MapSeries(inp.sf.time, Num2Date)
        interval_in == TimedeltaSeconds(time[1], time[2])
        rate        == MapSeries(cummulative2total(values_n, time),
                                 LAMBDA x : RDivInt(x, interval_in))
        f           == interp1d(Hours2Sec(inp.sf.time), rate, slf.times_out_nc)
    IN  IF interval_in = 0
        THEN [status |-> "returned", vals |-> [k \in DOMAIN slf.times_out_nc |-> NaN]]
        ELSE IF f.status # "returned" THEN f
        ELSE [status |-> "returned",
              vals |-> MapSeries(f.vals, LAMBDA x : RMul(x, Rat(slf.time_step, 1)))]

\* the three flux kernels: create vn, convert the unit of the cumulative
\* series (conv), then column by column FluxColumn
FluxKernel(store, vn, series, conv(_)) ==
    IF vn \in AddedVars(store) THEN KernelResult("RuntimeError", store, <<>>)
    ELSE LET st1 == createVariable(store, vn, NStation)
             r   == AllStations(NStation,
                        LAMBDA st : FluxColumn(MapSeries(series[st], conv)))
         IN  IF r.status # "returned" THEN KernelResult(r.status, st1, <<>>)
             ELSE KernelResult("returned", setVariable(st1, vn, r.cols), <<>>)

PREC_mm_sur(store) ==
    FluxKernel(store, "PREC_ERAI_mm_sur", inp.sf.tp, LAMBDA x : RMul(x, Rat(1000, 1)))

SW_Wm2_sur(store) ==
    FluxKernel(store, "SW_ERAI_Wm2_sur", inp.sf.ssrd, LAMBDA x : RDivInt(x, 3600))

LW_Wm2_sur(store) ==
    FluxKernel(store, "LW_ERAI_Wm2_sur", inp.sf.strd, LAMBDA x : RDivInt(x, 3600))

\* the value written unclipped
Unclipped(x, lo, hi) == x

\* RH.clip(min=0.1, max=99.9)
ClipRH(x, lo, hi) == Clip(x, lo, hi)

\* 100 - 5 * (T - dewp)
RawRH(t, dewp) == RSub(Rat(100, 1), RMul(Rat(5, 1), RSub(t, dewp)))

\* interpolates the dew point, creates RH_ERAI_per_sur, then reads
\* AIRT_ERAI_C_sur from the output store
RH_per_sur(store) ==
    LET vn   == "RH_ERAI_per_sur"
        dewp == InterpCols(inp.sa.time, inp.sa.d2m, Kelvin2C, Same)
    IN  IF dewp.status # "returned" THEN KernelResult(dewp.status, store, <<>>)
        ELSE IF vn \in AddedVars(store) THEN KernelResult("RuntimeError", store, <<>>)
        ELSE LET st1 == createVariable(store, vn, NStation)
             IN  IF "AIRT_ERAI_C_sur" \notin AddedVars(st1)
                 THEN KernelResult("KeyError", st1, <<>>)
                 ELSE KernelResult("returned",
                        setVariable(st1, vn,
                          [st \in 1..NStation |->
                             [k \in DOMAIN st1.time |->
                                ClipRH(RawRH(st1.vars["AIRT_ERAI_C_sur"][st][k],
                                             dewp.cols[st][k]),
                                       Rat(1, 10), Rat(999, 10))]]),
                        <<>>)

\* interpolates u10 and v10, creates both wind variables, then assigns the
\* whole (time, station) array of speeds to the column of the first station,
\* which netCDF4 refuses unless there is one station only
WIND_sur(store) ==
    LET U == InterpCols(inp.sa.time, inp.sa.u10, Same, Same)
        V == InterpCols(inp.sa.time, inp.sa.v10, Same, Same)
    IN  IF U.status # "returned" THEN KernelResult(U.status, store, <<>>)
        ELSE IF V.status # "returned" THEN KernelResult(V.status, store, <<>>)
        ELSE IF "WSPD_ERAI_ms_sur" \in AddedVars(store)
        THEN KernelResult("RuntimeError", store, <<>>)
        ELSE LET st1 == createVariable(store, "WSPD_ERAI_ms_sur", NStation)
             IN  IF "WDIR_ERAI_deg_sur" \in AddedVars(st1)
                 THEN KernelResult("RuntimeError", st1, <<>>)
                 ELSE LET st2 == createVariable(st1, "WDIR_ERAI_deg_sur", NStation)
                          WS  == [st \in 1..NStation |-> [k \in DOMAIN st2.time |->
                                    [kind |-> "sqrt",
                                     of |-> RAdd(RMul(V.cols[st][k], V.cols[st][k]),
                                                 RMul(U.cols[st][k], U.cols[st][k]))]]]
                          WD  == [st \in 1..NStation |-> [k \in DOMAIN st2.time |->
                                    [kind |-> "atan2deg180",
                                     v |-> V.cols[st][k], u |-> U.cols[st][k]]]]
                      IN  IF NStation > 1 THEN KernelResult("ValueError", st2, <<>>)
                          ELSE KernelResult("returned",
                                 setVariable(setVariable(st2, "WSPD_ERAI_ms_sur", WS),
                                             "WDIR_ERAI_deg_sur", WD), <<>>)

\* creates SH_ERAI_kgkg_sur, interpolates the dew point, then reads
\* PRESS_ERAI_Pa_pl from the output store
SH_kgkg_sur(store) ==
    LET vn == "SH_ERAI_kgkg_sur"
    IN  IF vn \in AddedVars(store) THEN KernelResult("RuntimeError", store, <<>>)
        ELSE LET st1  == createVariable(store, vn, NStation)
                 dewp == InterpCols(inp.sa.time, inp.sa.d2m, Kelvin2C, Same)
             IN  IF dewp.status # "returned" THEN KernelResult(dewp.status, st1, <<>>)
                 ELSE IF "PRESS_ERAI_Pa_pl" \notin AddedVars(st1)
                 THEN KernelResult("KeyError", st1, <<>>)
                 ELSE KernelResult("returned",
                        setVariable(st1, vn,
                          [st \in 1..NStation |-> [k \in DOMAIN st1.time |->
                              [kind |-> "spec_hum_kgkg", dewp |-> dewp.cols[st][k],
                               press |-> st1.vars["PRESS_ERAI_Pa_pl"][st][k]]]]),
                        <<>>)

\* creates LW_ERAI_Wm2_topo, then reads RH_ERAI_per_sur and AIRT_ERAI_C_sur
\* from the output store value by value
LW_Wm2_topo(store) ==
    LET vn == "LW_ERAI_Wm2_topo"
    IN  IF vn \in AddedVars(store) THEN KernelResult("RuntimeError", store, <<>>)
        ELSE LET st1 == createVariable(store, vn, NStation)
             IN  IF "RH_ERAI_per_sur" \notin AddedVars(st1)
                 THEN KernelResult("KeyError", st1, <<>>)
                 ELSE IF Len(st1.time) > 0 /\ "AIRT_ERAI_C_sur" \notin AddedVars(st1)
                 THEN KernelResult("KeyError", st1, <<>>)
                 ELSE KernelResult("returned",
                        setVariable(st1, vn,
                          [st \in 1..NStation |-> [k \in DOMAIN st1.time |->
                              [kind |-> "LW_downward",
                               rh |-> st1.vars["RH_ERAI_per_sur"][st][k],
                               t |-> C2Kelvin(st1.vars["AIRT_ERAI_C_sur"][st][k]),
                               sky_view |-> st]]]),
                        <<>>)

\* the methods of ERAIscale whose names are written in upper case
KernelNames ==
    {"PRESS_Pa_pl", "AIRT_C_pl", "AIRT_C_sur", "AIRT_redcapp", "PREC_mm_sur",
     "RH_per_sur", "WIND_sur", "SW_Wm2_sur", "LW_Wm2_sur", "SH_kgkg_sur",
     "LW_Wm2_topo"}

\* an attribute of the object that is no method, and a name it does not have
OtherAttributes == {"nt"}
UnknownNames    == {"SNOW_mm_sur"}

\* every name found on the object
hasattrAlways(name) == TRUE

\* no name found on the object
hasattrNever(name) == FALSE

\* hasattr(self, kernel_name)
hasattr(name) == name \in KernelNames \cup OtherAttributes

\* getattr(self, kernel_name)(): the call of a kernel, or of an attribute
\* that cannot be called
CallKernel(name, store) ==
    CASE name = "PRESS_Pa_pl"  -> PRESS_Pa_pl(store)
      [] name = "AIRT_C_pl"    -> AIRT_C_pl(store)
      [] name = "AIRT_C_sur"   -> AIRT_C_sur(store)
      [] name = "AIRT_redcapp" -> AIRT_redcapp(store)
      [] name = "PREC_mm_sur"  -> PREC_mm_sur(store)
      [] name = "RH_per_sur"   -> RH_per_sur(store)
      [] name = "WIND_sur"     -> WIND_sur(store)
      [] name = "SW_Wm2_sur"   -> SW_Wm2_sur(store)
      [] name = "LW_Wm2_sur"   -> LW_Wm2_sur(store)
      [] name = "SH_kgkg_sur"  -> SH_kgkg_sur(store)
      [] name = "LW_Wm2_topo"  -> LW_Wm2_topo(store)
      [] OTHER                 -> KernelResult("TypeError", store, <<>>)

----------------------------------------------------------------------------
(* ERAIscale: the run                                                       *)

\* hour of the first time step of the input files, the spacings of their
\* time axes [h] and the output steps par.time_step [h]
FirstHour     == 6
InIntervals   == {3, 6, 24}
OutSteps      == {2, 3, 6}

\* totals of one native interval of the flux series, and the differences
\* between air temperature and dew point [K] of one time step
TotalVals == {0, 2}
GapVals   == {0 - 1, 10, 25}

\* the four interpolated files: L time steps of spacing I hours, nst stations
ScaleInput(L, I, nst, totals, gap) ==
    LET time == [k \in 1..L |-> FirstHour + (k - 1) * I]
        cum  == Accumulate([k \in 1..L |-> Rat(totals[k], 1)])
        t2m  == [st \in 1..nst |-> [k \in 1..L |-> Rat(27315 + 100 * (k + st), 100)]]
    IN  [pl |-> [time |-> time,
                 air_pressure |-> [st \in 1..nst |-> [k \in 1..L |-> Rat(700 + 10 * k + st, 1)]],
                 t |-> [st \in 1..nst |-> [k \in 1..L |-> Rat(26315 + 100 * (k + st), 100)]]],
         sa |-> [time |-> time,
                 t2m |-> t2m,
                 d2m |-> [st \in 1..nst |-> [k \in 1..L |-> RSub(t2m[st][k], Rat(gap[k], 1))]],
                 u10 |-> [st \in 1..nst |-> [k \in 1..L |-> Rat(3 * k, 1)]],
                 v10 |-> [st \in 1..nst |-> [k \in 1..L |-> Rat(4 * st, 1)]]],
         sf |-> [time |-> time,
                 tp   |-> [st \in 1..nst |-> MapSeries(cum, LAMBDA x : RDivInt(x, 1000))],
                 ssrd |-> [st \in 1..nst |-> MapSeries(cum, LAMBDA x : RMul(x, Rat(3600, 1)))],
                 strd |-> [st \in 1..nst |-> MapSeries(cum, LAMBDA x : RMul(x, Rat(3600, 1)))]],
         to |-> [nstation |-> nst],
         totals |-> totals]

FluxKernels == {"PREC_mm_sur", "SW_Wm2_sur", "LW_Wm2_sur"}
DewKernels  == {"RH_per_sur", "SH_kgkg_sur", "LW_Wm2_topo"}

\* par.kernels as the parameter file gives it: a list of names or one name
KernelPool == KernelNames \cup OtherAttributes \cup UnknownNames

KernelLists ==
    {[isList |-> TRUE, val |-> l] :
        l \in UNION {[1..m -> KernelPool] : m \in 0..MaxKernels}}
    \cup {[isList |-> FALSE, val |-> <<k>>] : k \in KernelPool}

\* every kernel behind the kernels that produce what it reads
KernelRuns ==
    {[isList |-> TRUE, val |-> <<k>>] :
        k \in KernelNames \ DewKernels}
    \cup {[isList |-> TRUE, val |-> l] :
            l \in {<<"AIRT_C_sur", "RH_per_sur">>, <<"PRESS_Pa_pl", "SH_kgkg_sur">>,
                   <<"AIRT_C_sur", "RH_per_sur", "LW_Wm2_topo">>}}

\* an ERAIscale about to be constructed from a parameter file with one of
\* the kernel settings kls and the input files of one of the shapes given;
\* the flux totals vary (vary) where a flux kernel is configured, the dew
\* points where RH_per_sur is the last kernel
ScStart(kls, lens, ivals, steps, vary) ==
    /\ par \in [kernels : kls, time_step : steps]
    /\ \E L \in lens, I \in ivals, nst \in 1..2 :
         \E totals \in (IF vary /\ Range(par.kernels.val) \cap FluxKernels # {}
                        THEN [1..L -> TotalVals] ELSE {[k \in 1..L |-> 1]}),
            gap \in (IF vary /\ par.kernels.val # <<>>
                             /\ par.kernels.val[Len(par.kernels.val)] = "RH_per_sur"
                     THEN [1..L -> GapVals] ELSE {[k \in 1..L |-> 10]}) :
             inp = ScaleInput(L, I, nst, totals, gap)
    /\ slf = <<>>
    /\ rg = NoStore
    /\ klog = <<>>
    /\ ki = 0
    /\ pc = "new"
    /\ n = 0
    /\ open = {}
    /\ sgrids = 0
    /\ E2SIdle
    /\ IpIdle
    /\ LevIdle
    /\ DlIdle

ScaleInit  == ScStart(KernelLists, {1, 2}, {3}, {3}, FALSE)
KernelInit == ScStart(KernelRuns, 1..MaxIn, InIntervals, OutSteps, TRUE)

InputHandles == {"nc_pl", "nc_sa", "nc_sf", "nc_to"}

\* ERAIscale.__init__: the kernel list, the four input handles and the
\* output time axis; time[1] raises on an axis of one step
SC_Init ==
    /\ pc = "new"
    /\ open' = open \cup InputHandles
    /\ LET time    == MapSeries(inp.sf.time, Num2Date)
           kernels == IF par.kernels.isList THEN par.kernels.val
                      ELSE <<par.kernels.val[1]>>
       IN  IF Len(time) < 2
           THEN /\ slf' = [kernels |-> kernels, time_step |-> par.time_step * 3600,
                           nt |-> 0, times_out_nc |-> <<>>]
                /\ pc' = "raisedInit"
           ELSE /\ slf' = [kernels |-> kernels, time_step |-> par.time_step * 3600,
                           nt |-> Nt(time, par.time_step),
                           times_out_nc |-> TimesOutNc(time, par.time_step)]
                /\ pc' = "configured"
    /\ UNCHANGED <<par, inp, rg, klog, ki>>
    /\ UNCHANGED <<nctime, pl, date, cs, variables, time_in, niter, n, dfield, vi, out>>
    /\ UNCHANGED <<ipVars, levVars, dlVars, sgrids>>

\* process, lines 1367-1372: the output store is opened
SC_Open ==
    /\ pc = "configured"
    /\ rg' = ScaledFileOpen(slf.times_out_nc)
    /\ open' = open \cup {"rg"}
    /\ ki' = 0
    /\ pc' = "kernels"
    /\ UNCHANGED <<par, inp, slf, klog>>
    /\ UNCHANGED <<nctime, pl, date, cs, variables, time_in, niter, n, dfield, vi, out>>
    /\ UNCHANGED <<ipVars, levVars, dlVars, sgrids>>

\* process, lines 1375-1378: one pass of the loop over the kernel names; an
\* exception of the kernel leaves process, and pc names it
SC_Kernel ==
    /\ pc = "kernels"
    /\ ki < Len(slf.kernels)
    /\ LET kernel_name == slf.kernels[ki + 1]
           res         == CallKernel(kernel_name, rg)
       IN  IF ~hasattr(kernel_name)
           THEN /\ ki' = ki + 1
                /\ UNCHANGED <<rg, klog, pc>>
           ELSE /\ klog' = (klog \o <<kernel_name>>) \o res.printed
                /\ rg' = res.rg
                /\ IF res.status = "returned"
                   THEN ki' = ki + 1 /\ pc' = pc
                   ELSE ki' = ki /\ pc' = res.status
    /\ UNCHANGED <<par, inp, slf, open>>
    /\ UNCHANGED <<nctime, pl, date, cs, variables, time_in, niter, n, dfield, vi, out>>
    /\ UNCHANGED <<ipVars, levVars, dlVars, sgrids>>

\* process, lines 1381-1385: the five stores are closed
SC_Close ==
    /\ pc = "kernels"
    /\ ki >= Len(slf.kernels)
    /\ open' = open \ ({"rg"} \cup InputHandles)
    /\ pc' = "closed"
    /\ UNCHANGED <<par, inp, slf, rg, klog, ki>>
    /\ UNCHANGED <<nctime, pl, date, cs, variables, time_in, niter, n, dfield, vi, out>>
    /\ UNCHANGED <<ipVars, levVars, dlVars, sgrids>>

ScaleNext ==
    \/ SC_Init
    \/ SC_Open
    \/ SC_Kernel
    \/ SC_Close

SpecScale  == ScaleInit /\ [][ScaleNext]_vars

SpecKernel == KernelInit /\ [][ScaleNext]_vars

----------------------------------------------------------------------------
(* Properties of ERAIscale                                                  *)

\* the exceptions that leave process from a kernel
KernelExceptions == {"KeyError", "ValueError", "RuntimeError", "TypeError"}

\* the names that process printed before it called them, in order
Called == SelectSeq(klog, LAMBDA x : x \in KernelPool)

\* the names of the configured list that are attributes of the object
IsAttribute(x) == x \in KernelNames \cup OtherAttributes
Expected == SelectSeq(slf.kernels, IsAttribute)

\* the number of names among the first k of the list that are attributes
CountAttr(k) == Len(SelectSeq(SubSeq(slf.kernels, 1, k), IsAttribute))

AllStores == {"rg"} \cup InputHandles

\* C13: process goes CONFIGURED -> SCHEMA_OPEN -> (RUN_KERNEL)* -> CLOSED: no
\* kernel is called before the output store is open; the kernels called so
\* far are the first ones of the configured list, each once and in the order
\* of the list; the five stores stay open while kernels run and are closed
\* only after the last kernel has returned; in CLOSED exactly the kernels of
\* the list have been called.
C13_ProcessLifecycle ==
    /\ pc \in {"new", "configured", "raisedInit"} => (klog = <<>> /\ "rg" \notin open)
    /\ Len(klog) > 0 => rg.created
    /\ pc = "kernels" =>
          /\ open = AllStores
          /\ Called = SubSeq(Expected, 1, CountAttr(ki))
    /\ pc \in KernelExceptions =>
          Called = SubSeq(Expected, 1, CountAttr(ki + 1))
    /\ pc = "closed" =>
          /\ ki = Len(slf.kernels)
          /\ Called = Expected
          /\ open \cap AllStores = {}

\* a finished run of two different kernels that both wrote a variable
C13_Witness ==
    /\ pc = "closed"
    /\ Called = <<"AIRT_C_sur", "RH_per_sur">>
    /\ AddedVars(rg) = {"AIRT_ERAI_C_sur", "RH_ERAI_per_sur"}

\* the input time axis and the output step in seconds since 1900
InSeconds   == [k \in DOMAIN inp.sf.time |-> inp.sf.time[k] * 3600]
StepSeconds == par.time_step * 3600

\* C14: the output time axis is { t_min + k*step : k = 0..floor((t_max -
\* t_min)/step) }: it starts at the smallest input timestamp, is evenly spaced
\* at the configured step and strictly increasing, and its last element is at
\* or before the largest input timestamp and less than one step before it.
C14_OutputTimeAxis ==
    pc \in {"configured", "kernels", "closed"} \cup KernelExceptions =>
        LET T    == slf.times_out_nc
            tmin == SeqMin(InSeconds)
            tmax == SeqMax(InSeconds)
        IN  /\ Len(T) = slf.nt
            /\ Len(T) = ((tmax - tmin) \div StepSeconds) + 1
            /\ \A k \in DOMAIN T : T[k] = tmin + (k - 1) * StepSeconds
            /\ IsStrictlyIncreasing(T)
            /\ T[1] = tmin
            /\ T[Len(T)] <= tmax
            /\ tmax - T[Len(T)] < StepSeconds

\* an axis whose last element lies before the largest input timestamp
C14_Witness ==
    /\ pc = "configured"
    /\ Len(slf.times_out_nc) = 2
    /\ slf.times_out_nc[2] < SeqMax(InSeconds)
    /\ slf.times_out_nc[2] + StepSeconds > SeqMax(InSeconds)

\* C15: every kernel that process calls and that returns has added exactly
\* one variable to the output store, and no kernel removes a variable that
\* another kernel added.
C15_EachKernelAddsOneVariable ==
    [][(pc = "kernels" /\ pc' = "kernels" /\ klog' # klog) =>
          /\ AddedVars(rg) \subseteq AddedVars(rg')
          /\ Cardinality(AddedVars(rg')) = Cardinality(AddedVars(rg)) + 1]_vars

\* C16: when a kernel raises KeyError because the variable it reads has not
\* been produced, the run has failed and the output store left behind holds
\* none of the variables of the kernel set.
C16_MissingProducerLeavesNoPartialStore ==
    pc = "KeyError" => AddedVars(rg) = {}

\* something printed that is neither the name of a called attribute nor the
\* placeholder text of AIRT_redcapp
Flagged == \E i \in DOMAIN klog : klog[i] \notin KernelPool \cup {"AIRT_ERAI_redcapp"}

\* C17: once AIRT_redcapp has been called, the run has flagged it as a no-op
\* or has left the path that a kernel which completed puts it on (the loop
\* going on to the next name, then CLOSED).
C17_PlaceholderIsFlagged ==
    (/\ pc \in {"kernels", "closed"}
     /\ ki >= 1
     /\ slf.kernels[ki] = "AIRT_redcapp") => Flagged

\* the variables of the flux kernels, the spacing of the input axis [s]
FluxVars == {"PREC_ERAI_mm_sur", "SW_ERAI_Wm2_sur", "LW_ERAI_Wm2_sur"}
IntervalSeconds == (inp.sf.time[2] - inp.sf.time[1]) * 3600

\* the kernels called so far have all returned
KernelsReturned == pc \in {"kernels", "closed"}

\* the total of native interval k in the unit of the output variable
Total(k) == Rat(inp.totals[k], 1)

RECURSIVE RSumSet(_, _)
RSumSet(col, J) ==
    IF J = {} THEN Rat(0, 1)
    ELSE LET j == CHOOSE x \in J : TRUE
         IN  RAdd(col[j], RSumSet(col, J \ {j}))

\* the output steps that end within native interval k, i.e. after input
\* timestamp k-1 and not after input timestamp k
StepsOfInterval(k) ==
    {j \in DOMAIN rg.time : InSeconds[k - 1] < rg.time[j] /\ rg.time[j] <= InSeconds[k]}

C19_RelativeHumidityClipped ==
    (KernelsReturned /\ "RH_ERAI_per_sur" \in AddedVars(rg)) =>
        \A st \in 1..NStation : \A j \in DOMAIN rg.time :
            LET v == rg.vars["RH_ERAI_per_sur"][st][j]
            IN  /\ v.kind = "num"
                /\ RLe(Rat(1, 10), v)
                /\ RLe(v, Rat(999, 10))

\* 100 - 5*(T - Td) of the first station at input step k
RawAtInput(k) ==
    RawRH(Kelvin2C(inp.sa.t2m[1][k]), Kelvin2C(inp.sa.d2m[1][k]))

\* RH written where the unclipped value is below 0.1 at the first input step,
\* above 99.9 at the second and within the range at the third
C19_Witness ==
    /\ pc = "closed"
    /\ Called = <<"AIRT_C_sur", "RH_per_sur">>
    /\ Len(InSeconds) = 3
    /\ StepSeconds = IntervalSeconds
    /\ ~RLe(Rat(1, 10), RawAtInput(1))
    /\ ~RLe(RawAtInput(2), Rat(999, 10))
    /\ RLe(Rat(1, 10), RawAtInput(3)) /\ RLe(RawAtInput(3), Rat(999, 10))
    /\ rg.vars["RH_ERAI_per_sur"][1][1] = Rat(1, 10)
    /\ rg.vars["RH_ERAI_per_sur"][1][2] = Rat(999, 10)
    /\ rg.vars["RH_ERAI_per_sur"][1][3] = RawAtInput(3)

\* the states in which a method has ended, by its return or by an exception
Ended ==
    pc \in {"done", "closed", "raisedInterp", "raisedWrite", "raisedArgmin",
            "raisedInit"} \cup KernelExceptions

\* C20: when ERA2station, levels2elevation or ERAIscale has ended, by its
\* return or by an exception, no store handle that it opened is open.
C20_HandlesClosedOnEveryPath == Ended => open = {}

----------------------------------------------------------------------------
(* ERAIdownload: __init__ and retrieve                                      *)
(* Latitudes and longitudes are counted in half degrees, dates in days.     *)

MaxDay   == 3     \* par.beg and par.end are days 0..MaxDay
MaxChunk == 2     \* par.chunk_size is 1..MaxChunk days

\* the 1.5 degrees of line 671, in half degrees
MinExtent == 3

\* (par.bbN < par.bbS) or (par.bbE < par.bbW)
BoxInvalid(p) == (p.bbN < p.bbS) \/ (p.bbE < p.bbW)

\* (np.abs(par.bbN-par.bbS) < 1.5) or (np.abs(par.bbE-par.bbW) < 1.5)
BoxTooSmall(p) ==
    (Abs(p.bbN - p.bbS) < MinExtent) \/ (Abs(p.bbE - p.bbW) < MinExtent)

\* slices = floor(float((end - beg).days) / chunk_size) + 1
Slices(p) == ((p.end - p.beg) \div p.chunk_size) + 1

\* date_i of slice ind: beg + chunk_size*ind up to beg + chunk_size*(ind+1) - 1,
\* and up to self.date['end'] in the last slice
SliceDates(p, ind) ==
    [beg |-> p.beg + p.chunk_size * ind,
     end |-> IF ind = Slices(p) - 1 THEN p.end
             ELSE p.beg + p.chunk_size * (ind + 1) - 1]

\* what ERAIto(area, directory).download() hands to the server
TopoRequest(p) == [kind |-> "to", beg |-> 0, end |-> 0]

\* what "for era in [pl, sa, sf]: era.download()" hands to the server
SliceRequests(p, ind) ==
    [k \in 1..3 |->
        [kind |-> <<"pl", "sa", "sf">>[k],
         beg |-> SliceDates(p, ind).beg, end |-> SliceDates(p, ind).end]]

DownloadInit ==
    /\ dpar \in [bbN : {-2, 0, 2, 3, 4}, bbS : {0},
                 bbE : {-2, 0, 2, 3, 4}, bbW : {0},
                 beg : 0..MaxDay, end : 0..MaxDay, chunk_size : 1..MaxChunk,
                 isdir : BOOLEAN]
    /\ dirs = <<>>
    /\ reqs = <<>>
    /\ pc = "new"
    /\ n = 0
    /\ open = {}
    /\ sgrids = 0
    /\ E2SIdle
    /\ IpIdle
    /\ LevIdle
    /\ ScIdle

\* lines 656-691: ERAIdownload(pfile)
DL_Init ==
    /\ pc = "new"
    /\ IF BoxInvalid(dpar) THEN
            /\ pc' = "raisedInvalid"
            /\ UNCHANGED dirs
       ELSE IF BoxTooSmall(dpar) THEN
            /\ pc' = "raisedSmall"
            /\ UNCHANGED dirs
       ELSE /\ pc' = "constructed"
            /\ dirs' = IF dpar.isdir THEN dirs ELSE Append(dirs, "erai")
    /\ UNCHANGED <<nctime, pl, date, cs, variables, time_in, niter, n, dfield,
                   vi, out>>
    /\ UNCHANGED <<dpar, reqs>>
    /\ UNCHANGED <<ipVars, levVars, scVars, sgrids, open>>

\* lines 699-704: retrieve up to the topography download
DL_Topography ==
    /\ pc = "constructed"
    /\ reqs' = Append(reqs, TopoRequest(dpar))
    /\ n' = 0
    /\ pc' = "slices"
    /\ UNCHANGED <<nctime, pl, date, cs, variables, time_in, niter, dfield,
                   vi, out>>
    /\ UNCHANGED <<dpar, dirs>>
    /\ UNCHANGED <<ipVars, levVars, scVars, sgrids, open>>

\* lines 706-725: one pass of "for ind in range(0, int(slices))"
DL_Slice ==
    /\ pc = "slices"
    /\ n < Slices(dpar)
    /\ reqs' = reqs \o SliceRequests(dpar, n)
    /\ n' = n + 1
    /\ UNCHANGED <<nctime, pl, date, cs, variables, pc, time_in, niter, dfield,
                   vi, out>>
    /\ UNCHANGED <<dpar, dirs>>
    /\ UNCHANGED <<ipVars, levVars, scVars, sgrids, open>>

\* line 728: the loop is over, self.inventory() reports the files
DL_Inventory ==
    /\ pc = "slices"
    /\ n >= Slices(dpar)
    /\ pc' = "retrieved"
    /\ UNCHANGED <<nctime, pl, date, cs, variables, time_in, niter, n, dfield,
                   vi, out>>
    /\ UNCHANGED <<dlVars>>
    /\ UNCHANGED <<ipVars, levVars, scVars, sgrids, open>>

DownloadNext == DL_Init \/ DL_Topography \/ DL_Slice \/ DL_Inventory

SpecDownload == DownloadInit /\ [][DownloadNext]_vars

\* the configuration errors C21 names
DateInvalid(p) == p.end < p.beg
Rejected == pc \in {"raisedInvalid", "raisedSmall"}

\* C21: a parameter file with an invalid or too small bounding box or with
\* end before beg is rejected before any I/O: once the constructor has run
\* the run has ended in an error, no directory was made and no request was
\* handed to the server.
C21_InvalidConfigRejectedBeforeIO ==
    (pc # "new" /\ (BoxInvalid(dpar) \/ BoxTooSmall(dpar) \/ DateInvalid(dpar)))
        => (Rejected /\ dirs = <<>> /\ reqs = <<>>)

----------------------------------------------------------------------------
(* ERA2station: the time window                                             *)

\* the input steps of the half-open window [beg, end), in input order
InWindow(time, d) ==
    SelectSeq(time, LAMBDA t : d.beg <= Num2Date(t) /\ Num2Date(t) < d.end)

\* a window is given and the dataset has several time steps
WindowedRun == ~date.isNone /\ Len(nctime) > 1

\* C22: with a window on a multi-step dataset no step outside [beg, end) is
\* ever written, and a finished run has written exactly the input steps t
\* with beg <= t < end, in input order, one row per step in every variable.
C22_WindowIsHalfOpen ==
    WindowedRun =>
        /\ Range(out.time) \subseteq Range(InWindow(nctime, date))
        /\ pc = "done" =>
              /\ out.time = InWindow(nctime, date)
              /\ \A v \in DOMAIN out.vars :
                    Written(pl, out.vars[v]) = 1..Len(InWindow(nctime, date))

\* a finished run whose input holds a step equal to beg, which was written,
\* and a step equal to end, which was not
C22_Witness ==
    /\ WindowedRun
    /\ pc = "done"
    /\ \E k \in DOMAIN nctime : Num2Date(nctime[k]) = date.beg
                                 /\ nctime[k] \in Range(out.time)
    /\ \E k \in DOMAIN nctime : Num2Date(nctime[k]) = date.end
                                 /\ nctime[k] \notin Range(out.time)

\* C23: at the head of every chunk iteration the row offset beg = n * cs is
\* the number of time values the earlier chunks appended, and between chunks
\* every variable of the output store has one written row per entry of the
\* output time axis: no row is missing and none lies beyond the axis.
C23_OffsetIsAppendedCount ==
    pc = "loop" =>
        /\ n < niter => ChunkBeg(n, cs) = Len(out.time)
        /\ \A v \in DOMAIN out.vars :
              /\ Len(out.vars[v]) = Len(out.time)
              /\ Written(pl, out.vars[v]) = 1..Len(out.time)

\* the head of the second chunk of a run, a first chunk of two steps written
C23_Witness ==
    /\ pc = "loop"
    /\ n = 1
    /\ n < niter
    /\ cs = 2
    /\ Len(out.time) = 2
    /\ DOMAIN out.vars # {}

----------------------------------------------------------------------------
(* ERA2station over time axes that may repeat a timestamp                   *)

\* the time axes of a file-set whose files may overlap: non-decreasing
AnyAxes ==
    {s \in UNION {[1..L -> 1..MaxTime] : L \in 1..MaxTime} :
        \A k \in 1..(Len(s) - 1) : s[k] <= s[k + 1]}

E2SAnyInit ==
    /\ nctime \in AnyAxes
    /\ pl \in BOOLEAN
    /\ date \in {d \in DateChoices : d.beg <= d.end}
    /\ cs \in 1..MaxCs
    /\ variables \in ReqChoices
    /\ pc = "start"
    /\ time_in = <<>>
    /\ niter = 0
    /\ n = 0
    /\ dfield = <<>>
    /\ vi = 0
    /\ out = NoStore
    /\ open = {}
    /\ sgrids = 0
    /\ IpIdle
    /\ LevIdle
    /\ ScIdle
    /\ DlIdle

SpecE2SAny == E2SAnyInit /\ [][E2SNext]_vars

\* C24: in every chunk iteration over a multi-step dataset the chunk mask
\* selects end - beg + 1 time steps, and the regridded slice of every
\* variable has that many rows, on every non-decreasing time axis.
C24_ChunkMaskSelectsRange ==
    (Len(nctime) > 1 /\ n < niter) =>
        LET beg == ChunkBeg(n, cs)
            end == ChunkEnd(n, cs, Len(time_in))
        IN  /\ pc = "loop" =>
                  CountTrue(ChunkMask(nctime, time_in, beg, end)) = end - beg + 1
            /\ pc \in {"time", "vars"} =>
                  \A i \in DOMAIN dfield : Len(dfield[i]) = end - beg + 1

----------------------------------------------------------------------------
(* ERA2station: the variables argument                                      *)

----------------------------------------------------------------------------
(* ERA2station: the source grid                                             *)

\* C30: one run of ERA2station builds the source grid at most once, and a
\* finished run that processed some chunk has built it exactly once,
\* however many chunks it processed.
C30_SourceGridBuiltOnce ==
    /\ sgrids <= 1
    /\ (pc = "done" /\ niter >= 1) => sgrids = 1

----------------------------------------------------------------------------
(* ERAIscale.process: names that are no attribute                           *)

\* the next name of the kernel list is no attribute of the object
AtUnknownName ==
    /\ pc = "kernels"
    /\ ki < Len(slf.kernels)
    /\ ~IsAttribute(slf.kernels[ki + 1])

\* C26: the step of process at a name that is no attribute of ERAIscale
\* raises nothing, prints nothing, adds no variable and leaves the stores
\* open: it only moves on to the next name of the list; and the step that
\* ends the kernel loop has called the attributes of the list in order and
\* leaves every store closed.
C26_UnknownKernelSkipped ==
    [][/\ AtUnknownName =>
            /\ pc' = "kernels"
            /\ ki' = ki + 1
            /\ rg' = rg
            /\ klog' = klog
            /\ open' = open
       /\ (pc = "kernels" /\ pc' = "closed") =>
            /\ Called' = Expected'
            /\ open' = {}]_vars

\* a closed run whose list named an unknown kernel before a kernel that
\* added its variable
C26_Witness ==
    /\ pc = "closed"
    /\ slf.kernels = <<"SNOW_mm_sur", "AIRT_C_sur">>
    /\ AddedVars(rg) = {"AIRT_ERAI_C_sur"}
    /\ Called = <<"AIRT_C_sur">>
    /\ open = {}

----------------------------------------------------------------------------
(* ERAIscale over input files whose time axes differ                        *)

\* the hours by which the pressure-level and the surface-analysis axis may
\* lie off the surface-forecast axis
AxisShifts == {0 - 3, 0, 3}

\* the input files with the axes of nc_pl and nc_sa moved by dpl and dsa hours
ShiftAxes(input, dpl, dsa) ==
    [input EXCEPT !.pl.time = [k \in DOMAIN @ |-> @[k] + dpl],
                  !.sa.time = [k \in DOMAIN @ |-> @[k] + dsa]]

\* the kernels that resample a pressure-level or a surface-analysis series
AnalysisKernels == {"PRESS_Pa_pl", "AIRT_C_pl", "AIRT_C_sur", "WIND_sur"}

AxesInit ==
    /\ par \in [kernels : {[isList |-> TRUE, val |-> <<k>>] : k \in AnalysisKernels},
                time_step : OutSteps]
    /\ \E L \in 2..MaxIn, I \in {3, 6}, nst \in 1..2, dpl \in AxisShifts,
          dsa \in AxisShifts :
         inp = ShiftAxes(ScaleInput(L, I, nst, [k \in 1..L |-> 1],
                                    [k \in 1..L |-> 10]), dpl, dsa)
    /\ slf = <<>>
    /\ rg = NoStore
    /\ klog = <<>>
    /\ ki = 0
    /\ pc = "new"
    /\ n = 0
    /\ open = {}
    /\ sgrids = 0
    /\ E2SIdle
    /\ IpIdle
    /\ LevIdle
    /\ DlIdle

SpecScaleAxes == AxesInit /\ [][ScaleNext]_vars

\* t lies in the range [first, last] of an input time axis given in hours
WithinAxis(t, hours) ==
    /\ SeqMin(hours) * 3600 <= t
    /\ t <= SeqMax(hours) * 3600

\* C27: every timestamp of the output time axis lies within the time range
\* of the pressure-level, the surface-analysis and the surface-forecast
\* series, whatever the ranges of the three input files are.
C27_OutputAxisWithinEveryInput ==
    pc \in {"configured", "kernels", "closed"} \cup KernelExceptions =>
        \A k \in DOMAIN slf.times_out_nc :
            /\ WithinAxis(slf.times_out_nc[k], inp.pl.time)
            /\ WithinAxis(slf.times_out_nc[k], inp.sa.time)
            /\ WithinAxis(slf.times_out_nc[k], inp.sf.time)

----------------------------------------------------------------------------
(* levels2elevation: a station at the height of a level                     *)

\* C28: where the elevation of a station equals the height of a level at a
\* time step, that level is the level above (va) and has weight 1, the other
\* bracket has weight 0, and the value written for every variable is the
\* value of that variable at that level, for every level of the axis.
C28_TieTakesLevelValue ==
    \A s \in StationsDone : \A t \in DOMAIN zlev : \A l \in DOMAIN zlev[t] :
        DeleOf(s)[t][l] = 0 =>
            /\ s = n =>
                 /\ LevelOf(t, lw[t].va) = l
                 /\ lw[t].wt > 0
                 /\ lw[t].wa = lw[t].wt
                 /\ lw[t].wb = 0
            /\ \A v \in DOMAIN lout :
                 /\ lout[v][s][t].kind = "num"
                 /\ lout[v][s][t].den > 0
                 /\ lout[v][s][t].num =
                       VarData(v, zlev, ldata)[t][l] * lout[v][s][t].den

----------------------------------------------------------------------------
(* WIND_sur over several stations                                           *)

\* the series of station st of a surface-analysis variable on the output axis
Resampled(values, st) ==
    series_interpolate(slf.times_out_nc, Hours2Sec(inp.sa.time), values[st]).vals

\* sqrt(U[t, st]^2 + V[t, st]^2) from the resampled series of station st alone
SpeedAt(st, k) ==
    [kind |-> "sqrt",
     of |-> RAdd(RMul(Resampled(inp.sa.v10, st)[k], Resampled(inp.sa.v10, st)[k]),
                 RMul(Resampled(inp.sa.u10, st)[k], Resampled(inp.sa.u10, st)[k]))]

\* C29: once process has called WIND_sur, the kernel has returned and, for
\* every station n of the run, the column n of WSPD_ERAI_ms_sur holds one
\* value per output time step, the value at step t being sqrt(U^2 + V^2) of
\* station n's own resampled u10 and v10 at t, for one station and for more.
C29_WindSpeedPerStation ==
    Called = <<"WIND_sur">> =>
        /\ KernelsReturned
        /\ "WSPD_ERAI_ms_sur" \in AddedVars(rg)
        /\ \A st \in 1..NStation :
              /\ Len(rg.vars["WSPD_ERAI_ms_sur"][st]) = slf.nt
              /\ \A k \in 1..slf.nt :
                    rg.vars["WSPD_ERAI_ms_sur"][st][k] = SpeedAt(st, k)

====
